---- MODULE Spec2Model ----
(***************************************************************************)
(* Model of the component catalog viewer.                                  *)
(*                                                                         *)
(*  - SpecSidebar: the Sidebar loads the catalog (fetchCatalog builds the  *)
(*    tree from the flat path list) and filters it on every search term.   *)
(*  - SpecRenderer: the SvgRenderer effect substitutes the placeholders of *)
(*    a diagram for the props it is given.                                 *)
(*  - SpecViewer: the ComponentViewer loads the component of its path,     *)
(*    selects rows and hands the diagram and the row to the SvgRenderer.   *)
(*                                                                         *)
(* Strings are sequences of one-character strings, so that split, trim,    *)
(* the regular expressions and the replacement patterns are computed as    *)
(* the code computes them.  An optional field (path?, children?) is a      *)
(* sequence of length 0 (absent) or 1 (present).  Objects live in `heap`   *)
(* and are referred to by their address, so that "the same node" and "a    *)
(* copy of the node" are different things.                                 *)
(***************************************************************************)
EXTENDS Integers, Sequences, FiniteSets, TLC

VARIABLES
    componentPaths,   \* dataLoader.ts: the paths derived from the repository tree
    heap,             \* every CatalogItem object allocated so far
    catalog,          \* Sidebar state: list of root addresses
    catalogSize,      \* number of objects fetchCatalog allocated
    sidebarLoading,   \* Sidebar state `loading`
    catalogRequest,   \* the promise of fetchCatalog(): pending, resolved or rejected
    searchTerm,       \* Sidebar state
    matchedItems,     \* addresses returned by the last fuse.search
    filteredCatalog,  \* Sidebar useMemo result: list of root addresses
    svgContent,       \* SvgRenderer prop
    rendererData,     \* SvgRenderer prop `data`: None (null) or Some(entries)
    units,            \* SvgRenderer prop `units`: None (undefined) or Some(record)
    finalSvg,         \* what the effect assigned to innerHTML: None before it ran
    effectThrew,      \* the SvgRenderer effect raised an error
    elements,         \* the container's elements that have an id, in document order
    path,             \* ComponentViewer prop: None while no component is selected
    pending,          \* fetchComponentData calls that have not settled yet
    requests,         \* number of fetchComponentData calls made so far
    viewerData,       \* ComponentViewer state `data`: None (null) or Some(ComponentData)
    error,            \* ComponentViewer state: None (null) or Some(message)
    viewerLoading,    \* ComponentViewer state `loading`
    selectedRowIndex, \* ComponentViewer state: None (null) or Some(index)
    selectedRowData,  \* ComponentViewer state: None (null) or Some(row)
    isDiagramVisible, \* ComponentViewer state
    isTableVisible,   \* ComponentViewer state
    slugArg,          \* dataLoader.ts: the argument of a call of formatLabel
    label,            \* what the call returned: None while it has not returned
    selectedPath,     \* App state: None (null) or Some(path)
    isCompareMode,    \* App state
    selectedPaths,    \* App state: the Set in insertion order
    columnWidths,     \* App state: percentages as exact fractions
    resizeState,      \* App state: None (null) or Some(the drag in progress)
    drags             \* number of column drags started so far

sidebarVars == <<componentPaths, heap, catalog, catalogSize, sidebarLoading, catalogRequest,
                 searchTerm, matchedItems, filteredCatalog>>

rendererVars == <<svgContent, rendererData, units, finalSvg, effectThrew, elements>>

paneVars == <<isDiagramVisible, isTableVisible>>

viewerVars == <<path, pending, requests, viewerData, error, viewerLoading,
                selectedRowIndex, selectedRowData, paneVars>>

labelVars == <<slugArg, label>>

\* The components a run of the Sidebar, the SvgRenderer or the ComponentViewer
\* leaves alone
appVars == <<selectedPath, isCompareMode, selectedPaths, columnWidths, resizeState, drags>>

restVars == <<labelVars, appVars>>

vars == <<sidebarVars, rendererVars, viewerVars, restVars>>

----------------------------------------------------------------------------
(* Bounds *)

MaxDepth == 3      \* segments per path
MaxPaths == 2      \* paths in the repository listing
MaxPieces == 2     \* pieces of text a diagram is made of
MaxKeys == 2       \* keys of a data row
MaxSlug == 3       \* characters of a directory name given to formatLabel
MaxLeaves == 3     \* components of the catalog offered in the sidebar
MaxDrags == 2      \* column drags in a run
MaxRequests == 2   \* component loads started in one run

----------------------------------------------------------------------------
(* Generic helpers *)

None == <<>>
Some(x) == <<x>>

RECURSIVE SeqsUpTo(_, _)
SeqsUpTo(S, n) ==
    IF n = 0 THEN {<<>>}
    ELSE LET shorter == SeqsUpTo(S, n - 1)
         IN  shorter \cup {Append(s, x) : s \in {t \in shorter : Len(t) = n - 1}, x \in S}

Range(s) == {s[i] : i \in 1..Len(s)}

NoDuplicates(s) == \A i, j \in 1..Len(s) : i # j => s[i] # s[j]

RECURSIVE Flatten(_)
Flatten(ss) == IF ss = <<>> THEN <<>> ELSE Head(ss) \o Flatten(Tail(ss))

IsPrefix(s, t) == Len(s) <= Len(t) /\ SubSeq(t, 1, Len(s)) = s

----------------------------------------------------------------------------
(* String primitives *)

IsSpace(c) == c = " "

\* String.prototype.split with a one-character separator
RECURSIVE Split(_, _)
Split(str, sep) ==
    IF \A i \in 1..Len(str) : str[i] # sep THEN <<str>>
    ELSE LET i == CHOOSE k \in 1..Len(str) :
                      str[k] = sep /\ \A m \in 1..(k - 1) : str[m] # sep
         IN  <<SubSeq(str, 1, i - 1)>> \o Split(SubSeq(str, i + 1, Len(str)), sep)

\* Array.prototype.join with a one-character separator
RECURSIVE Join(_, _)
Join(parts, sep) ==
    IF parts = <<>> THEN <<>>
    ELSE IF Len(parts) = 1 THEN parts[1]
    ELSE parts[1] \o <<sep>> \o Join(Tail(parts), sep)

\* String.prototype.trim
RECURSIVE TrimStart(_)
TrimStart(s) == IF s # <<>> /\ IsSpace(Head(s)) THEN TrimStart(Tail(s)) ELSE s

RECURSIVE TrimEnd(_)
TrimEnd(s) ==
    IF s # <<>> /\ IsSpace(s[Len(s)]) THEN TrimEnd(SubSeq(s, 1, Len(s) - 1)) ELSE s

Trim(s) == TrimEnd(TrimStart(s))

\* String.prototype.toUpperCase on the characters the model uses
ToUpperCase(c) ==
    CASE c = "a" -> "A"
      [] c = "b" -> "B"
      [] c = "c" -> "C"
      [] c = "h" -> "H"
      [] c = "n" -> "N"
      [] c = "s" -> "S"
      [] OTHER   -> c

----------------------------------------------------------------------------
(* dataLoader.ts: formatLabel and the tree builder of fetchCatalog *)

\* SplitWords with /_/ in place of /[-_]/
SplitWords_underscoreOnly(slug) == Split(slug, "_")

\* slug.split(/[-_]/)
RECURSIVE SplitWords(_)
SplitWords(slug) ==
    IF \A i \in 1..Len(slug) : slug[i] \notin {"-", "_"} THEN <<slug>>
    ELSE LET i == CHOOSE k \in 1..Len(slug) :
                      slug[k] \in {"-", "_"} /\ \A m \in 1..(k - 1) : slug[m] \notin {"-", "_"}
         IN  <<SubSeq(slug, 1, i - 1)>> \o SplitWords(SubSeq(slug, i + 1, Len(slug)))

\* word.charAt(0).toUpperCase() + word.slice(1)
Capitalize(word) ==
    IF word = <<>> THEN <<>> ELSE <<ToUpperCase(word[1])>> \o Tail(word)

NonEmptyWord(word) == word # <<>>

\* formatLabel with the empty words filtered out before the join
formatLabel_skipEmptyWords(slug) ==
    LET words == SelectSeq(SplitWords(slug), NonEmptyWord)
    IN  Join([i \in 1..Len(words) |-> Capitalize(words[i])], " ")

formatLabel(slug) ==
    LET words == SplitWords(slug)
    IN  Join([i \in 1..Len(words) |-> Capitalize(words[i])], " ")

\* The list `items` designated by a level: level 0 is rootItems, level a > 0
\* is the children array of the object at address a.
ItemsAt(h, roots, level) == IF level = 0 THEN roots ELSE h[level].children[1]

\* findOrCreateNode with `item.name === name` in place of `item.id === id`
findOrCreateNode_byName(h, roots, level, id, name) ==
    LET items == ItemsAt(h, roots, level)
        hits  == {k \in 1..Len(items) : h[items[k]].name = name}
    IN  IF hits # {}
        THEN [heap |-> h, roots |-> roots,
              node |-> items[CHOOSE k \in hits : \A m \in hits : k <= m]]
        ELSE LET a  == Len(h) + 1
                 h1 == Append(h, [id |-> id, name |-> name, path |-> None,
                                  children |-> Some(<<>>)])
             IN  IF level = 0
                 THEN [heap |-> h1, roots |-> Append(roots, a), node |-> a]
                 ELSE [heap |-> [h1 EXCEPT ![level].children = Some(Append(items, a))],
                       roots |-> roots, node |-> a]

\* findOrCreateNode(items, id, name), on the list at `level`.  The result
\* holds the heap and root list after a possible push, and the node's address.
findOrCreateNode(h, roots, level, id, name) ==
    LET items == ItemsAt(h, roots, level)
        hits  == {k \in 1..Len(items) : h[items[k]].id = id}
    IN  IF hits # {}
        THEN [heap |-> h, roots |-> roots,
              node |-> items[CHOOSE k \in hits : \A m \in hits : k <= m]]
        ELSE LET a  == Len(h) + 1
                 h1 == Append(h, [id |-> id, name |-> name, path |-> None,
                                  children |-> Some(<<>>)])
             IN  IF level = 0
                 THEN [heap |-> h1, roots |-> Append(roots, a), node |-> a]
                 ELSE [heap |-> [h1 EXCEPT ![level].children = Some(Append(items, a))],
                       roots |-> roots, node |-> a]

\* ProcessPart with `node.path = part` in place of `node.path = fullPath`
ProcessPart_pathIsPart(st, fullPath, parts, index) ==
    LET part   == parts[index]
        isLeaf == index = Len(parts)
        r      == findOrCreateNode(st.heap, st.roots, st.level, part, formatLabel(part))
        a      == r.node
    IN  IF isLeaf
        THEN [heap  |-> [r.heap EXCEPT ![a].path = Some(part), ![a].children = None],
              roots |-> r.roots, level |-> st.level]
        ELSE [heap  |-> IF r.heap[a].children = None
                        THEN [r.heap EXCEPT ![a].children = Some(<<>>)]
                        ELSE r.heap,
              roots |-> r.roots, level |-> a]

\* ProcessPart without `delete node.children`
ProcessPart_keepChildren(st, fullPath, parts, index) ==
    LET part   == parts[index]
        isLeaf == index = Len(parts)
        r      == findOrCreateNode(st.heap, st.roots, st.level, part, formatLabel(part))
        a      == r.node
    IN  IF isLeaf
        THEN [heap  |-> [r.heap EXCEPT ![a].path = Some(fullPath)],
              roots |-> r.roots, level |-> st.level]
        ELSE [heap  |-> IF r.heap[a].children = None
                        THEN [r.heap EXCEPT ![a].children = Some(<<>>)]
                        ELSE r.heap,
              roots |-> r.roots, level |-> a]

\* The body of parts.forEach((part, index) => ...) for one part.
\* st = [heap, roots, level]
ProcessPart(st, fullPath, parts, index) ==
    LET part   == parts[index]
        isLeaf == index = Len(parts)
        r      == findOrCreateNode(st.heap, st.roots, st.level, part, formatLabel(part))
        a      == r.node
    IN  IF isLeaf
        THEN [heap  |-> [r.heap EXCEPT ![a].path = Some(fullPath), ![a].children = None],
              roots |-> r.roots, level |-> st.level]
        ELSE [heap  |-> IF r.heap[a].children = None
                        THEN [r.heap EXCEPT ![a].children = Some(<<>>)]
                        ELSE r.heap,
              roots |-> r.roots, level |-> a]

RECURSIVE ProcessParts(_, _, _, _)
ProcessParts(st, fullPath, parts, index) ==
    IF index > Len(parts) THEN st
    ELSE ProcessParts(ProcessPart(st, fullPath, parts, index), fullPath, parts, index + 1)

\* The body of componentPaths.forEach(fullPath => ...): currentLevel starts
\* at rootItems for every path.
ProcessPath(st, fullPath) ==
    ProcessParts([st EXCEPT !.level = 0], fullPath, Split(fullPath, "/"), 1)

RECURSIVE BuildTree(_, _)
BuildTree(st, paths) ==
    IF paths = <<>> THEN st ELSE BuildTree(ProcessPath(st, Head(paths)), Tail(paths))

----------------------------------------------------------------------------
(* Sidebar: the filter of filteredCatalog *)

\* getLeafNodes(nodes)
RECURSIVE getLeafNodes(_, _)
getLeafNodes(h, nodes) ==
    IF nodes = <<>> THEN <<>>
    ELSE LET node == h[Head(nodes)]
             here == IF node.children # None /\ Len(node.children[1]) > 0
                     THEN getLeafNodes(h, node.children[1])
                     ELSE IF node.path # None /\ node.path[1] # <<>>
                          THEN <<Head(nodes)>>
                          ELSE <<>>
         IN  here \o getLeafNodes(h, Tail(nodes))

\* KeepFolder without the length test
KeepFolder_always(filteredChildren) == TRUE

\* KeepFolder with `> 1` in place of `> 0`
KeepFolder_moreThanOne(filteredChildren) == Len(filteredChildren) > 1

\* `if (filteredChildren.length > 0)`
KeepFolder(filteredChildren) == Len(filteredChildren) > 0

\* RetainFolder assigning node.children in place of copying the node
RetainFolder_inPlace(h, a, filteredChildren) ==
    [heap |-> [h EXCEPT ![a].children = Some(filteredChildren)],
     out  |-> <<a>>]

\* RetainFolder with `{ children: filteredChildren }`, the spread left out
RetainFolder_withoutSpread(h, a, filteredChildren) ==
    [heap |-> Append(h, [id |-> <<>>, name |-> <<>>, path |-> None,
                         children |-> Some(filteredChildren)]),
     out  |-> <<Len(h) + 1>>]

\* `return { ...node, children: filteredChildren }`: a new object; the
\* original object at address a is left as it is.
RetainFolder(h, a, filteredChildren) ==
    [heap |-> Append(h, [h[a] EXCEPT !.children = Some(filteredChildren)]),
     out  |-> <<Len(h) + 1>>]

\* KeepLeaf keeping every leaf, matched or not
KeepLeaf_always(a, matched) == TRUE

\* `if (matchedItems.has(node)) return node`
KeepLeaf(a, matched) == a \in matched

\* Collect with the nodes that follow put first
Collect_followersFirst(kept, rest) == rest \o kept

\* nodes.map(...).filter(n => n !== null): what was kept of a node, followed
\* by what was kept of the nodes after it
Collect(kept, rest) == kept \o rest

\* filterTree(nodes): the result holds the heap after the allocation of the
\* folder copies and the list of retained addresses.
RECURSIVE filterTree(_, _, _)
filterTree(h, nodes, matched) ==
    IF nodes = <<>> THEN [heap |-> h, out |-> <<>>]
    ELSE LET a    == Head(nodes)
             node == h[a]
             kept == IF node.children # None
                     THEN LET sub == filterTree(h, node.children[1], matched)
                          IN  IF KeepFolder(sub.out)
                              THEN RetainFolder(sub.heap, a, sub.out)
                              ELSE [heap |-> sub.heap, out |-> <<>>]
                     ELSE IF KeepLeaf(a, matched)
                          THEN [heap |-> h, out |-> <<a>>]
                          ELSE [heap |-> h, out |-> <<>>]
             rest == filterTree(kept.heap, Tail(nodes), matched)
         IN  [heap |-> rest.heap, out |-> Collect(kept.out, rest.out)]

\* filteredCatalogOf with `!searchTerm` in place of `!searchTerm.trim()`
filteredCatalogOf_noTrim(h, cat, term, matched) ==
    IF term = <<>>
    THEN [heap |-> h, out |-> cat]
    ELSE filterTree(h, cat, matched)

\* The useMemo body: the early return on a blank term, otherwise the
\* reconstruction from the items fuse.search returned.
filteredCatalogOf(h, cat, term, matched) ==
    IF Trim(term) = <<>>
    THEN [heap |-> h, out |-> cat]
    ELSE filterTree(h, cat, matched)

----------------------------------------------------------------------------
(* Sidebar: inputs, initial state and actions *)

\* Two directory names with one display name, "B C"
Segs == {<<"b", "_", "c">>, <<"b", "-", "c">>}

AllPaths == {Join(segs, "/") : segs \in SeqsUpTo(Segs, MaxDepth) \ {<<>>}}

\* The listing of a git tree names every file once.
PathLists == {s \in SeqsUpTo(AllPaths, MaxPaths) : NoDuplicates(s)}

SearchTerms == {<<>>, <<" ">>, <<"b">>}

EmptyTree == [heap |-> <<>>, roots |-> <<>>, level |-> 0]

\* The state of a component that is not part of the run
SidebarIdle ==
    /\ componentPaths = <<>>
    /\ heap = <<>>
    /\ catalog = <<>>
    /\ catalogSize = 0
    /\ sidebarLoading = TRUE
    /\ catalogRequest = "pending"
    /\ searchTerm = <<>>
    /\ matchedItems = {}
    /\ filteredCatalog = <<>>

RendererIdle ==
    /\ svgContent = <<>>
    /\ rendererData = None
    /\ units = None
    /\ finalSvg = None
    /\ effectThrew = FALSE
    /\ elements = <<>>

LabelIdle ==
    /\ slugArg = <<>>
    /\ label = None

AppIdle ==
    /\ selectedPath = None
    /\ isCompareMode = FALSE
    /\ selectedPaths = <<>>
    /\ columnWidths = <<>>
    /\ resizeState = None
    /\ drags = 0

RestIdle == LabelIdle /\ AppIdle

ViewerIdle ==
    /\ path = None
    /\ pending = {}
    /\ requests = 0
    /\ viewerData = None
    /\ error = None
    /\ viewerLoading = FALSE
    /\ selectedRowIndex = None
    /\ selectedRowData = None
    /\ isDiagramVisible = TRUE
    /\ isTableVisible = TRUE

\* The recomputation of filteredCatalog for a catalog and a term.  fuse.search
\* is a library call: it returns some of the leaf nodes it was given.  The
\* objects of the previous result are unreachable and dropped.
Recompute(h, cat, term) ==
    \E matched \in SUBSET Range(getLeafNodes(h, cat)) :
        /\ Trim(term) = <<>> => matched = {}
        /\ LET r == filteredCatalogOf(h, cat, term, matched)
           IN  /\ heap' = r.heap
               /\ filteredCatalog' = r.out
               /\ matchedItems' = matched

InitSidebar ==
    /\ componentPaths \in PathLists
    /\ heap = <<>>
    /\ catalog = <<>>
    /\ catalogSize = 0
    /\ sidebarLoading = TRUE
    /\ catalogRequest = "pending"
    /\ searchTerm = <<>>
    /\ matchedItems = {}
    /\ filteredCatalog = <<>>
    /\ RendererIdle
    /\ ViewerIdle
    /\ RestIdle

\* Sidebar.tsx: fetchCatalog().then(data => { setCatalog(data); setLoading(false) })
FetchCatalogResolved ==
    /\ catalogRequest = "pending"
    /\ catalogRequest' = "resolved"
    /\ LET built == BuildTree(EmptyTree, componentPaths)
       IN  /\ catalog' = built.roots
           /\ catalogSize' = Len(built.heap)
           /\ Recompute(built.heap, built.roots, searchTerm)
    /\ sidebarLoading' = FALSE
    /\ UNCHANGED <<componentPaths, searchTerm, rendererVars, viewerVars, restVars>>

\* fetchCatalog() rejects (the request fails or the response is not ok; the
\* catch block rethrows).  The Sidebar chained no .catch: no state is set.
FetchCatalogRejected ==
    /\ catalogRequest = "pending"
    /\ catalogRequest' = "rejected"
    /\ UNCHANGED <<componentPaths, heap, catalog, catalogSize, sidebarLoading,
                   searchTerm, matchedItems, filteredCatalog, rendererVars, viewerVars, restVars>>

\* Sidebar.tsx: onChange={e => setSearchTerm(e.target.value)}, followed by the
\* useMemo recomputation of filteredCatalog
SetSearchTermFrom(terms) ==
    \E term \in terms :
        /\ term # searchTerm
        /\ searchTerm' = term
        /\ Recompute(SubSeq(heap, 1, catalogSize), catalog, term)
        /\ UNCHANGED <<componentPaths, catalog, catalogSize, sidebarLoading,
                       catalogRequest, rendererVars, viewerVars, restVars>>

SetSearchTerm == SetSearchTermFrom(SearchTerms)

NextSidebar == FetchCatalogResolved \/ FetchCatalogRejected \/ SetSearchTerm

SpecSidebar == InitSidebar /\ [][NextSidebar]_vars

\* The request of fetchCatalog does not stay pending for ever.  Resolution and
\* rejection are enabled together and each disables the other, so weak
\* fairness of the rejection says just that and leaves open which way the
\* request settles.  Typing in the search box is up to the user.
SpecSidebarFair == SpecSidebar /\ WF_vars(FetchCatalogRejected)

----------------------------------------------------------------------------
(* The sidebar on a catalog of three components, two of them screws *)

SocketHeadPath == <<"s", "c", "r", "e", "w", "s", "/", "s", "o", "c", "k", "e", "t", "_", "h", "e", "a", "d">>

HexHeadPath == <<"s", "c", "r", "e", "w", "s", "/", "h", "e", "x", "_", "h", "e", "a", "d">>

HexNutPath == <<"n", "u", "t", "s", "/", "h", "e", "x">>

Hex == <<"h", "e", "x">>

Socket == <<"s", "o", "c", "k", "e", "t">>

\* The three paths in every order of the listing
ScenarioLists ==
    {s \in SeqsUpTo({SocketHeadPath, HexHeadPath, HexNutPath}, 3) :
        Len(s) = 3 /\ NoDuplicates(s)}

ScenarioTerms == {<<>>, <<" ">>, Hex, Socket}

InitScenario ==
    /\ componentPaths \in ScenarioLists
    /\ heap = <<>>
    /\ catalog = <<>>
    /\ catalogSize = 0
    /\ sidebarLoading = TRUE
    /\ catalogRequest = "pending"
    /\ searchTerm = <<>>
    /\ matchedItems = {}
    /\ filteredCatalog = <<>>
    /\ RendererIdle
    /\ ViewerIdle
    /\ RestIdle

\* Sidebar.tsx: onChange of the search box
TypeScenarioTerm == SetSearchTermFrom(ScenarioTerms)

NextScenario == FetchCatalogResolved \/ FetchCatalogRejected \/ TypeScenarioTerm

SpecScenario == InitScenario /\ [][NextScenario]_vars

----------------------------------------------------------------------------
(* SvgRenderer: values, the regular expressions and String.prototype.replace *)

\* A row value is a string or a number.  Numbers are kept in tenths.
Str(chars) == [type |-> "string", s |-> chars]
Num(tenths) == [type |-> "number", tenths |-> tenths]

DigitChar(d) == <<"0", "1", "2", "3", "4", "5", "6", "7", "8", "9">>[d + 1]

RECURSIVE NatToString(_)
NatToString(n) ==
    IF n < 10 THEN <<DigitChar(n)>> ELSE NatToString(n \div 10) \o <<DigitChar(n % 10)>>

\* String(value): a string is itself; a number prints its integer part and,
\* when it has one, its fraction (String(7.0) is "7", String(5.5) is "5.5").
ToStr(value) ==
    IF value.type = "string" THEN value.s
    ELSE NatToString(value.tenths \div 10)
             \o (IF value.tenths % 10 = 0 THEN <<>> ELSE <<".", DigitChar(value.tenths % 10)>>)

RawSuffix == <<"_", "r", "a", "w">>

\* One character of the key, as the RegExp constructor reads it: `.` matches
\* any character, every other character of the modelled keys matches itself.
AtomMatches(p, c) == p = "." \/ p = c

NameMatchesAt(doc, j, name) ==
    /\ j + Len(name) - 1 <= Len(doc)
    /\ \A m \in 1..Len(name) : AtomMatches(name[m], doc[j + m - 1])

\* Number of whitespace characters from position j on
RECURSIVE SpaceRun(_, _)
SpaceRun(doc, j) ==
    IF j <= Len(doc) /\ IsSpace(doc[j]) THEN 1 + SpaceRun(doc, j + 1) ELSE 0

\* End of a match of  \s*}}  started right after the name at position j
\* (0 when there is none).
ClosesAt(doc, j) ==
    LET k == j + SpaceRun(doc, j)
    IN  IF k + 1 <= Len(doc) /\ doc[k] = "}" /\ doc[k + 1] = "}" THEN k + 1 ELSE 0

\* Length of the match of  {{\s*<name>\s*}}  at position i, 0 when there is
\* none.  The first \s* is greedy and gives characters back when the rest of
\* the pattern fails.
MatchAt(doc, i, name) ==
    IF ~(i + 1 <= Len(doc) /\ doc[i] = "{" /\ doc[i + 1] = "{") THEN 0
    ELSE LET run == SpaceRun(doc, i + 2)
             ok  == {a \in 0..run :
                         /\ NameMatchesAt(doc, i + 2 + a, name)
                         /\ ClosesAt(doc, i + 2 + a + Len(name)) # 0}
         IN  IF ok = {} THEN 0
             ELSE LET a == CHOOSE x \in ok : \A y \in ok : y <= x
                  IN  ClosesAt(doc, i + 2 + a + Len(name)) - i + 1

\* GetSubstitution: the replacement text for the match of length n at
\* position i of doc.  $$ is a dollar, $& the match, $` the text before the
\* match and $' the text after it; any other $ stands for itself (the
\* patterns have no capture group).
\* The grave accent (U+0060), named because a string literal cannot hold it
GraveAccent == "U+0060"

Apostrophe == "'"

RECURSIVE Expand(_, _, _, _)
Expand(repl, doc, i, n) ==
    IF repl = <<>> THEN <<>>
    ELSE IF /\ Head(repl) = "$"
            /\ Len(repl) >= 2
            /\ repl[2] \in {"$", "&", GraveAccent, Apostrophe}
    THEN (CASE repl[2] = "$" -> <<"$">>
            [] repl[2] = "&" -> SubSeq(doc, i, i + n - 1)
            [] repl[2] = GraveAccent -> SubSeq(doc, 1, i - 1)
            [] repl[2] = Apostrophe -> SubSeq(doc, i + n, Len(doc)))
         \o Expand(SubSeq(repl, 3, Len(repl)), doc, i, n)
    ELSE <<Head(repl)>> \o Expand(Tail(repl), doc, i, n)

\* The replacement string as String.prototype.replace uses it
Replacement(repl, doc, i, n) == Expand(repl, doc, i, n)

\* doc.replace(new RegExp(`{{\\s*${name}\\s*}}`, 'g'), repl) from position i on
RECURSIVE ReplaceFrom(_, _, _, _)
ReplaceFrom(doc, i, name, repl) ==
    IF i > Len(doc) THEN <<>>
    ELSE LET n == MatchAt(doc, i, name)
         IN  IF n > 0
             THEN Replacement(repl, doc, i, n) \o ReplaceFrom(doc, i + n, name, repl)
             ELSE <<doc[i]>> \o ReplaceFrom(doc, i + 1, name, repl)

ReplaceAll(doc, name, repl) == ReplaceFrom(doc, 1, name, repl)

\* `units && units[key]`: the unit when the record has a non-empty one
UnitOf(u, key) ==
    IF u # None /\ key \in DOMAIN u[1] /\ u[1][key] # <<>> THEN Some(u[1][key]) ELSE None

\* displayValue of the forEach body
DisplayValue(key, value, u) ==
    IF UnitOf(u, key) # None
    THEN ToStr(value) \o <<" ">> \o UnitOf(u, key)[1]
    ELSE ToStr(value)

\* The forEach body for one entry: the raw form first, then the default form
SubstituteEntry(doc, key, value, u) ==
    ReplaceAll(ReplaceAll(doc, key \o RawSuffix, ToStr(value)),
               key, DisplayValue(key, value, u))

RECURSIVE SubstituteEntries(_, _, _)
SubstituteEntries(doc, entries, u) ==
    IF entries = <<>> THEN doc
    ELSE SubstituteEntries(SubstituteEntry(doc, Head(entries).key, Head(entries).value, u),
                           Tail(entries), u)

\* finalSvg of the effect
Render(doc, d, u) == IF d = None THEN doc ELSE SubstituteEntries(doc, d[1], u)

\* new RegExp(`{{\\s*${key}_raw\\s*}}`, 'g') raises a SyntaxError when the key,
\* pasted unescaped into the pattern, leaves a group unbalanced.
RECURSIVE GroupsBalanced(_, _)
GroupsBalanced(key, open) ==
    IF key = <<>> THEN open = 0
    ELSE IF Head(key) = "(" THEN GroupsBalanced(Tail(key), open + 1)
    ELSE IF Head(key) = ")" THEN open > 0 /\ GroupsBalanced(Tail(key), open - 1)
    ELSE GroupsBalanced(Tail(key), open)

RegExpThrows(key) == ~GroupsBalanced(key, 0)

\* querySelector(`#val_${key}`) raises a SyntaxError when the selector is not
\* valid: a parenthesis in it, or a "." that no class name follows.
SelectorThrows(key) ==
    \E i \in 1..Len(key) :
        \/ key[i] \in {"(", ")"}
        \/ key[i] = "." /\ (i = Len(key) \/ key[i + 1] \in {".", "(", ")", " "})

KeysOf(d) == IF d = None THEN <<>> ELSE [i \in 1..Len(d[1]) |-> d[1][i].key]

\* What assigning innerHTML makes of the text, as far as querySelector by id
\* can tell: the elements  <text id="...">...</text>  with their text content.
OpenTag == <<"<", "t", "e", "x", "t", " ", "i", "d", "=", "\"">>
CloseTag == <<"<", "/", "t", "e", "x", "t", ">">>

StartsWith(doc, i, s) ==
    i + Len(s) - 1 <= Len(doc) /\ SubSeq(doc, i, i + Len(s) - 1) = s

\* Number of characters from position j on that are not the character `stop`
RECURSIVE RunUntil(_, _, _)
RunUntil(doc, j, stop) ==
    IF j <= Len(doc) /\ doc[j] # stop THEN 1 + RunUntil(doc, j + 1, stop) ELSE 0

\* The element that starts at position i: its length in the text, its id and
\* its text content; length 0 when none starts there.
ElementAt(doc, i) ==
    IF ~StartsWith(doc, i, OpenTag) THEN [len |-> 0, id |-> <<>>, text |-> <<>>]
    ELSE LET idStart   == i + Len(OpenTag)
             idLen     == RunUntil(doc, idStart, "\"")
             textStart == idStart + idLen + 2
             textLen   == RunUntil(doc, textStart, "<")
         IN  IF /\ StartsWith(doc, idStart + idLen, <<"\"", ">">>)
                /\ StartsWith(doc, textStart + textLen, CloseTag)
             THEN [len  |-> textStart + textLen + Len(CloseTag) - i,
                   id   |-> SubSeq(doc, idStart, idStart + idLen - 1),
                   text |-> SubSeq(doc, textStart, textStart + textLen - 1)]
             ELSE [len |-> 0, id |-> <<>>, text |-> <<>>]

RECURSIVE ElementsFrom(_, _)
ElementsFrom(doc, i) ==
    IF i > Len(doc) THEN <<>>
    ELSE LET e == ElementAt(doc, i)
         IN  IF e.len > 0
             THEN <<[id |-> e.id, text |-> e.text]>> \o ElementsFrom(doc, i + e.len)
             ELSE ElementsFrom(doc, i + 1)

ElementsOf(doc) == ElementsFrom(doc, 1)

ValPrefix == <<"v", "a", "l", "_">>

\* querySelector(`#val_${key}`) for a key whose selector is valid: the first
\* element with that id, 0 for null.
QuerySelector(els, key) ==
    LET hits == {k \in 1..Len(els) : els[k].id = ValPrefix \o key}
    IN  IF hits = {} THEN 0 ELSE CHOOSE k \in hits : \A m \in hits : k <= m

\* The val_<key> pass over the entries that are left: it stops at the first
\* key whose selector is not valid, with what it had overwritten until then.
RECURSIVE LegacyPass(_, _)
LegacyPass(els, entries) ==
    IF entries = <<>> THEN [elements |-> els, threw |-> FALSE]
    ELSE IF SelectorThrows(Head(entries).key) THEN [elements |-> els, threw |-> TRUE]
    ELSE LET k == QuerySelector(els, Head(entries).key)
         IN  LegacyPass(IF k = 0 THEN els
                        ELSE [els EXCEPT ![k].text = ToStr(Head(entries).value)],
                        Tail(entries))

\* One run of the effect.  The substitution pass raises before innerHTML is
\* assigned, the val_<key> pass after it; nothing catches either error.
Effect(doc, d, u, previous, previousElements) ==
    IF \E i \in 1..Len(KeysOf(d)) : RegExpThrows(KeysOf(d)[i])
    THEN [innerHTML |-> previous, elements |-> previousElements, threw |-> TRUE]
    ELSE LET svg    == Render(doc, d, u)
             legacy == LegacyPass(ElementsOf(svg), IF d = None THEN <<>> ELSE d[1])
         IN  [innerHTML |-> Some(svg), elements |-> legacy.elements,
              threw |-> legacy.threw]

----------------------------------------------------------------------------
(* SvgRenderer: inputs, initial state and actions *)

KeyH == <<"H">>
KeyHRaw == <<"H", "_", "r", "a", "w">>
KeyHDot == <<"H", ".">>
KeyHParen == <<"H", "(">>

Keys == {KeyH, KeyHRaw, KeyHDot, KeyHParen}

Values == {Num(55), Str(<<"$", "&">>), Str(<<"$", Apostrophe>>)}

UnitStrings == {<<>>, <<"m", "m">>}

\* Object.entries lists the keys of a row in insertion order (none of the
\* modelled keys is an array index).
DataProps ==
    {None} \cup
    {Some(e) : e \in {s \in SeqsUpTo([key : Keys, value : Values], MaxKeys) :
                          NoDuplicates([i \in 1..Len(s) |-> s[i].key])}}

UnitsProps ==
    {None} \cup
    {Some(f) : f \in UNION {[S -> UnitStrings] : S \in SUBSET {KeyH}}}

DocPieces ==
    { <<"{", "{", "H", "}", "}">>,
      <<"{", "{", " ", "H", " ", "}", "}">>,
      <<"{", "{", "H", "_", "r", "a", "w", "}", "}">>,
      <<"{", "{", "D", "}", "}">>,
      <<"<", "t", "e", "x", "t", " ", "i", "d", "=", "\"", "v", "a", "l", "_", "H", "\"", ">",
        "x", "<", "/", "t", "e", "x", "t", ">">>,
      <<"x">> }

Docs == {Flatten(ps) : ps \in SeqsUpTo(DocPieces, MaxPieces) \ {<<>>}}

InitRenderer ==
    /\ svgContent \in Docs
    /\ rendererData \in DataProps
    /\ units \in UnitsProps
    /\ finalSvg = None
    /\ effectThrew = FALSE
    /\ elements = <<>>
    /\ SidebarIdle
    /\ ViewerIdle
    /\ RestIdle

\* The effect after the first commit: innerHTML = finalSvg
MountEffect ==
    /\ finalSvg = None
    /\ ~effectThrew
    /\ LET e == Effect(svgContent, rendererData, units, finalSvg, elements)
       IN  /\ finalSvg' = e.innerHTML
           /\ elements' = e.elements
           /\ effectThrew' = e.threw
    /\ UNCHANGED <<svgContent, rendererData, units, sidebarVars, viewerVars, restVars>>

\* The parent passes another `data` (no row, or another row of the same
\* columns, is selected) and the effect, whose dependencies are
\* [data, svgContent], runs again.
DataChangeEffect ==
    /\ finalSvg # None
    /\ ~effectThrew
    /\ \E d \in DataProps :
           /\ d # rendererData
           /\ d = None \/ rendererData = None \/ KeysOf(d) = KeysOf(rendererData)
           /\ rendererData' = d
           /\ LET e == Effect(svgContent, d, units, finalSvg, elements)
              IN  /\ finalSvg' = e.innerHTML
                  /\ elements' = e.elements
                  /\ effectThrew' = e.threw
    /\ UNCHANGED <<svgContent, units, sidebarVars, viewerVars, restVars>>

NextRenderer == MountEffect \/ DataChangeEffect

SpecRenderer == InitRenderer /\ [][NextRenderer]_vars

----------------------------------------------------------------------------
(* ComponentViewer: the catalog's components, initial state and actions *)

KeyPitch == <<"p", "i", "t", "c", "h">>

\* '<text>{{pitch}}</text><rect width="{{pitch_raw}}"/>'
PitchDiagram ==
    <<"<", "t", "e", "x", "t", ">", "{", "{", "p", "i", "t", "c", "h", "}", "}",
      "<", "/", "t", "e", "x", "t", ">",
      "<", "r", "e", "c", "t", " ", "w", "i", "d", "t", "h", "=", "\"",
      "{", "{", "p", "i", "t", "c", "h", "_", "r", "a", "w", "}", "}", "\"", "/", ">">>

\* '{{ H }}x{{H_raw}}'
HeadDiagram ==
    <<"{", "{", " ", "H", " ", "}", "}", "x",
      "{", "{", "H", "_", "r", "a", "w", "}", "}">>

Column(key, unit) == [key |-> key, unit |-> unit]

PitchComponent ==
    [config |-> [columns |-> Some(<<Column(KeyPitch, Some(<<"m", "m">>))>>),
                 data    |-> Some(<< <<[key |-> KeyPitch, value |-> Num(7)]>> >>)],
     svg    |-> PitchDiagram]

HeadComponent ==
    [config |-> [columns |-> Some(<<Column(KeyH, Some(<<"m", "m">>))>>),
                 data    |-> Some(<< <<[key |-> KeyH, value |-> Num(55)]>>,
                                     <<[key |-> KeyH, value |-> Num(70)]>> >>)],
     svg    |-> HeadDiagram]

\* `data: []` passes the Array.isArray test of fetchComponentData
EmptyComponent ==
    [config |-> [columns |-> Some(<<Column(KeyH, None)>>), data |-> Some(<<>>)],
     svg    |-> <<"x">>]

\* a config.yaml with rows and no `columns` key
NoColumnsComponent ==
    [config |-> [columns |-> None,
                 data    |-> Some(<< <<[key |-> KeyH, value |-> Num(55)]>> >>)],
     svg    |-> <<"x">>]

\* a config.yaml without a `data` list
NoDataConfig == [columns |-> Some(<<Column(KeyH, None)>>), data |-> None]

\* What fetch() resolves with: a missing resource is a response that is not
\* ok and whose body is the text of the 404 page.
NotFound(body) == [ok |-> FALSE, body |-> body]
Found(body) == [ok |-> TRUE, body |-> body]

\* The text of a config.yaml, by what yaml.load makes of it, or an HTML page.
Yaml(config) == [html |-> FALSE, parsed |-> Some(config)]
HtmlPage == [html |-> TRUE, parsed |-> None]
NotFoundYaml == Yaml([columns |-> None, data |-> None])
NotFoundText == <<"4", "0", "4">>

ViewerPaths ==
    {"screws/pitch", "screws/head", "screws/empty", "screws/nocolumns",
     "screws/nodata", "screws/html", "screws/noconfig", "screws/nosvg"}

\* The two resources of a component directory of the catalog repository
Repository(p) ==
    CASE p = "screws/pitch" ->
             [config |-> Found(Yaml(PitchComponent.config)), svg |-> Found(PitchDiagram)]
      [] p = "screws/head" ->
             [config |-> Found(Yaml(HeadComponent.config)), svg |-> Found(HeadDiagram)]
      [] p = "screws/empty" ->
             [config |-> Found(Yaml(EmptyComponent.config)), svg |-> Found(<<"x">>)]
      [] p = "screws/nocolumns" ->
             [config |-> Found(Yaml(NoColumnsComponent.config)), svg |-> Found(<<"x">>)]
      [] p = "screws/nodata" ->
             [config |-> Found(Yaml(NoDataConfig)), svg |-> Found(<<"x">>)]
      [] p = "screws/html" ->
             [config |-> Found(HtmlPage), svg |-> Found(<<"x">>)]
      [] p = "screws/noconfig" ->
             [config |-> NotFound(NotFoundYaml), svg |-> Found(<<"x">>)]
      [] OTHER ->
             [config |-> Found(Yaml(HeadComponent.config)), svg |-> NotFound(NotFoundText)]

ResponsesOk_configOnly(configRes, svgRes) == configRes.ok

\* !configRes.ok || !svgRes.ok, negated
ResponsesOk(configRes, svgRes) == configRes.ok /\ svgRes.ok

\* !config || !Array.isArray(config.data), negated
ValidConfig(parsed) == parsed # None /\ parsed[1].data # None

\* What fetchComponentData settles with once Promise.all has both responses.
fetchComponentData(configRes, svgRes) ==
    IF ~ResponsesOk(configRes, svgRes)
    THEN [ok |-> FALSE, message |-> "Failed to fetch component data"]
    ELSE IF configRes.body.html
    THEN [ok |-> FALSE, message |-> "Failed to fetch config (got HTML)"]
    ELSE IF ~ValidConfig(configRes.body.parsed)
    THEN [ok |-> FALSE, message |-> "Invalid configuration format"]
    ELSE [ok |-> TRUE,
          result |-> [config |-> configRes.body.parsed[1], svg |-> svgRes.body]]

\* The two fetches of a call that is in flight
Fetches == {"config", "svg"}

Settled(r) == fetchComponentData(Repository(r.path).config, Repository(r.path).svg)

\* The commit after a state change: <SvgRenderer svgContent={data.svg}
\* data={selectedRowData} /> is mounted while `data` is set, no `units` prop is
\* passed, and its effect assigns the rendered diagram.
RendererShows(d, row, visible) ==
    IF d = None \/ ~visible
    THEN /\ svgContent' = <<>>
         /\ rendererData' = None
         /\ units' = None
         /\ finalSvg' = None
         /\ effectThrew' = FALSE
         /\ elements' = <<>>
    ELSE /\ svgContent' = d[1].svg
         /\ rendererData' = row
         /\ units' = None
         /\ LET e == Effect(d[1].svg, row, None, None, <<>>)
            IN  /\ finalSvg' = e.innerHTML
                /\ elements' = e.elements
                /\ effectThrew' = e.threw

\* The commit of a change that leaves the panes as they are
RendererCommit(d, row) == RendererShows(d, row, isDiagramVisible)

InitViewer ==
    /\ ViewerIdle
    /\ RendererIdle
    /\ SidebarIdle
    /\ RestIdle

\* App: setSelectedPath(p); the viewer's effect on [path] resets the selection
\* and starts the load.
SelectPath ==
    \E p \in ViewerPaths :
        /\ path # Some(p)
        /\ requests < MaxRequests
        /\ path' = Some(p)
        /\ viewerLoading' = TRUE
        /\ error' = None
        /\ selectedRowIndex' = None
        /\ selectedRowData' = None
        /\ requests' = requests + 1
        /\ pending' = pending \cup {[id |-> requests + 1, path |-> p, received |-> {}]}
        /\ RendererCommit(viewerData, None)
        /\ UNCHANGED <<viewerData, paneVars, sidebarVars, restVars>>

\* The response of one of the two fetches arrives while the other fetch is
\* still in flight: Promise.all keeps waiting.
ResponseArrives ==
    \E r \in pending :
        /\ r.received = {}
        /\ \E f \in Fetches :
               pending' = (pending \ {r}) \cup {[r EXCEPT !.received = {f}]}
        /\ UNCHANGED <<path, requests, viewerData, error, viewerLoading, selectedRowIndex,
                       selectedRowData, paneVars, rendererVars, sidebarVars, restVars>>

\* HasRows asking for a second row
HasRows_moreThanOne(result) == Len(result.config.data[1]) > 1

\* `result.config?.data?.length > 0`
HasRows(result) == Len(result.config.data[1]) > 0

\* The second response arrives, fetchComponentData returns and
\* .then(result => ...) runs
FetchResolved ==
    \E r \in pending :
        /\ r.received # {}
        /\ Settled(r).ok
        /\ LET result == Settled(r).result
               rows   == result.config.data[1]
           IN  /\ viewerData' = Some(result)
               /\ viewerLoading' = FALSE
               /\ IF HasRows(result)
                  THEN /\ selectedRowIndex' = Some(0)
                       /\ selectedRowData' = Some(rows[1])
                  ELSE UNCHANGED <<selectedRowIndex, selectedRowData>>
               /\ RendererCommit(Some(result), IF HasRows(result) THEN Some(rows[1])
                                                ELSE selectedRowData)
        /\ pending' = pending \ {r}
        /\ UNCHANGED <<path, requests, error, paneVars, sidebarVars, restVars>>

\* The second response arrives, fetchComponentData throws and
\* .catch(err => ...) runs
FetchRejected ==
    \E r \in pending :
        /\ r.received # {}
        /\ ~Settled(r).ok
        /\ error' = Some(Settled(r).message)
        /\ viewerLoading' = FALSE
        /\ pending' = pending \ {r}
        /\ UNCHANGED <<path, requests, viewerData, selectedRowIndex, selectedRowData,
                       paneVars, rendererVars, sidebarVars, restVars>>

\* handleRowSelect(index, row), called by a click on a row of the table (the
\* table is mounted while `data && isTableVisible`, maps over config.columns
\* and renders no row without them)
handleRowSelect ==
    /\ viewerData # None
    /\ isTableVisible
    /\ viewerData[1].config.columns # None
    /\ \E index \in 0..(Len(viewerData[1].config.data[1]) - 1) :
           /\ selectedRowIndex # Some(index)
           /\ selectedRowIndex' = Some(index)
           /\ selectedRowData' = Some(viewerData[1].config.data[1][index + 1])
           /\ RendererCommit(viewerData, Some(viewerData[1].config.data[1][index + 1]))
    /\ UNCHANGED <<path, pending, requests, viewerData, error, viewerLoading, paneVars,
                   sidebarVars, restVars>>

\* TableAfterHide leaving the table pane as it is
TableAfterHide_untouched(t, dg) == t

\* The table pane after a click on the second button:
\* `if (!isDiagramVisible && !isTableVisible) setIsTableVisible(true)` and
\* `if (isDiagramVisible) setIsTableVisible(true)`
TableAfterHide(t, dg) == IF (~dg /\ ~t) \/ dg THEN TRUE ELSE t

\* The diagram pane after a click on the first button:
\* `if (!isTableVisible && !isDiagramVisible) setIsDiagramVisible(true)` and
\* `if (isTableVisible) setIsDiagramVisible(true)`
DiagramAfterMaximize(t, dg) == IF (~t /\ ~dg) \/ t THEN TRUE ELSE dg

\* onClick of the first button (Maximize Diagram / Show Table), rendered
\* while `data` is set.  The handler reads the state of the last render and
\* its updates are applied together.
ClickMaximizeDiagram ==
    /\ viewerData # None
    /\ isTableVisible' = ~isTableVisible
    /\ isDiagramVisible' = DiagramAfterMaximize(isTableVisible, isDiagramVisible)
    /\ RendererShows(viewerData, selectedRowData, isDiagramVisible')
    /\ UNCHANGED <<path, pending, requests, viewerData, error, viewerLoading,
                   selectedRowIndex, selectedRowData, sidebarVars, restVars>>

\* onClick of the second button (Hide Diagram / Show Diagram)
ClickHideDiagram ==
    /\ viewerData # None
    /\ isDiagramVisible' = ~isDiagramVisible
    /\ isTableVisible' = TableAfterHide(isTableVisible, isDiagramVisible)
    /\ RendererShows(viewerData, selectedRowData, isDiagramVisible')
    /\ UNCHANGED <<path, pending, requests, viewerData, error, viewerLoading,
                   selectedRowIndex, selectedRowData, sidebarVars, restVars>>

NextViewer ==
    \/ SelectPath
    \/ ResponseArrives
    \/ FetchResolved
    \/ FetchRejected
    \/ handleRowSelect
    \/ ClickMaximizeDiagram
    \/ ClickHideDiagram

SpecViewer == InitViewer /\ [][NextViewer]_vars

----------------------------------------------------------------------------
(* App: compare mode and the widths of its columns *)

RECURSIVE GCD(_, _)
GCD(a, b) == IF b = 0 THEN a ELSE GCD(b, a % b)

Abs(k) == IF k < 0 THEN -k ELSE k

\* A number of the code that is not an integer is kept as a fraction in lowest
\* terms with a positive denominator.
Frac(n, dn) ==
    LET g == GCD(Abs(n), dn)
    IN  [num |-> n \div g, den |-> dn \div g]

Whole(k) == [num |-> k, den |-> 1]

Plus(x, y) == Frac(x.num * y.den + y.num * x.den, x.den * y.den)

Minus(x, y) == Frac(x.num * y.den - y.num * x.den, x.den * y.den)

Less(x, y) == x.num * y.den < y.num * x.den

\* `Array(count).fill(100 / count)`
Fill(count) == [i \in 1..count |-> Frac(100, count)]

\* The effect on [selectedPaths]: the widths for a new selection
SyncedWidths(paths) == IF Len(paths) > 0 THEN Fill(Len(paths)) ELSE <<>>

\* Set.prototype.add on a Set kept in insertion order
SetAdd(paths, p) == IF p \in Range(paths) THEN paths ELSE Append(paths, p)

\* Set.prototype.delete
SetDelete(paths, p) == SelectSeq(paths, LAMBDA q : q # p)

\* toggleCompareMode on entering: `if (!isCompareMode && selectedPath)
\* setSelectedPaths(new Set([selectedPath]))`
EnteredSet(selected, paths) ==
    IF selected # None THEN <<selected[1]>> ELSE paths

\* handleMultiSelect: `if (selected) next.add(path) else next.delete(path)`
MultiSelected(paths, p, selected) ==
    IF selected THEN SetAdd(paths, p) ELSE SetDelete(paths, p)

\* The clamping of handleGlobalMouseMove without its second branch
Clamped_leftOnly(startWidths, deltaPercent) ==
    LET newLeft  == Plus(startWidths[1], deltaPercent)
        newRight == Minus(startWidths[2], deltaPercent)
        both     == Plus(startWidths[1], startWidths[2])
    IN  IF Less(newLeft, Whole(5))
        THEN <<Whole(5), Minus(both, Whole(5))>>
        ELSE <<newLeft, newRight>>

\* handleGlobalMouseMove: the new widths of the two columns at the handle
Clamped(startWidths, deltaPercent) ==
    LET newLeft  == Plus(startWidths[1], deltaPercent)
        newRight == Minus(startWidths[2], deltaPercent)
        both     == Plus(startWidths[1], startWidths[2])
    IN  IF Less(newLeft, Whole(5))
        THEN <<Whole(5), Minus(both, Whole(5))>>
        ELSE IF Less(newRight, Whole(5))
        THEN <<Minus(both, Whole(5)), Whole(5)>>
        ELSE <<newLeft, newRight>>

\* The components of the catalog, each known by its path
LeafPaths == 1..MaxLeaves

\* compareContainerRef.current.offsetWidth, in pixels
ContainerWidths == {500, 1000}

\* e.clientX of the mouse events
MouseXs == {100, 300, 900}

InitApp ==
    /\ AppIdle
    /\ LabelIdle
    /\ SidebarIdle
    /\ RendererIdle
    /\ ViewerIdle

\* handleSidebarSelect(path): a click on a leaf of the tree outside compare mode
handleSidebarSelect ==
    /\ ~isCompareMode
    /\ resizeState = None
    /\ \E p \in LeafPaths :
           /\ selectedPath # Some(p)
           /\ selectedPath' = Some(p)
    /\ UNCHANGED <<isCompareMode, selectedPaths, columnWidths, resizeState, drags,
                   labelVars, sidebarVars, rendererVars, viewerVars>>

\* toggleCompareMode(): a click on the compare icon.  A new Set makes the
\* effect on [selectedPaths] run, which resets the widths.
toggleCompareMode ==
    /\ resizeState = None
    /\ isCompareMode' = ~isCompareMode
    /\ IF ~isCompareMode
       THEN /\ selectedPaths' = EnteredSet(selectedPath, selectedPaths)
            /\ columnWidths' = IF selectedPath # None
                               THEN SyncedWidths(selectedPaths')
                               ELSE columnWidths
       ELSE UNCHANGED <<selectedPaths, columnWidths>>
    /\ UNCHANGED <<selectedPath, resizeState, drags,
                   labelVars, sidebarVars, rendererVars, viewerVars>>

\* handleMultiSelect(path, selected), called in compare mode by a click on a
\* leaf (selected = !selectedPaths.has(path)) or on its checkbox (selected =
\* the new state of the box); the effect on [selectedPaths] resets the widths.
handleMultiSelect ==
    /\ isCompareMode
    /\ resizeState = None
    /\ \E p \in LeafPaths :
           /\ selectedPaths' = MultiSelected(selectedPaths, p, p \notin Range(selectedPaths))
           /\ columnWidths' = SyncedWidths(selectedPaths')
    /\ UNCHANGED <<selectedPath, isCompareMode, resizeState, drags,
                   labelVars, sidebarVars, rendererVars, viewerVars>>

\* startResizingCol(index)(e): mousedown on the handle after column `index`
\* (0-based), rendered in compare mode for every column but the last
startResizingCol ==
    /\ isCompareMode
    /\ resizeState = None
    /\ drags < MaxDrags
    /\ Len(columnWidths) > 0
    /\ \E index \in 0..(Len(selectedPaths) - 2), x \in MouseXs :
           resizeState' = Some([type |-> "column", index |-> index, startX |-> x,
                                startWidths |-> <<columnWidths[index + 1],
                                                  columnWidths[index + 2]>>])
    /\ drags' = drags + 1
    /\ UNCHANGED <<selectedPath, isCompareMode, selectedPaths, columnWidths,
                   labelVars, sidebarVars, rendererVars, viewerVars>>

\* handleGlobalMouseMove(e) during a column drag
handleGlobalMouseMove ==
    /\ resizeState # None
    /\ \E x \in MouseXs, containerWidth \in ContainerWidths :
           LET index        == resizeState[1].index
               deltaPixels  == x - resizeState[1].startX
               deltaPercent == Frac(deltaPixels * 100, containerWidth)
               new          == Clamped(resizeState[1].startWidths, deltaPercent)
           IN  columnWidths' = [columnWidths EXCEPT ![index + 1] = new[1],
                                                    ![index + 2] = new[2]]
    /\ UNCHANGED <<selectedPath, isCompareMode, selectedPaths, resizeState, drags,
                   labelVars, sidebarVars, rendererVars, viewerVars>>

\* stopResizing(): mouseup
stopResizing ==
    /\ resizeState # None
    /\ resizeState' = None
    /\ UNCHANGED <<selectedPath, isCompareMode, selectedPaths, columnWidths, drags,
                   labelVars, sidebarVars, rendererVars, viewerVars>>

NextApp ==
    \/ handleSidebarSelect
    \/ toggleCompareMode
    \/ handleMultiSelect
    \/ startResizingCol
    \/ handleGlobalMouseMove
    \/ stopResizing

SpecApp == InitApp /\ [][NextApp]_vars

----------------------------------------------------------------------------
(* Reading a tree *)

ChildrenOf(h, a) == IF h[a].children = None THEN <<>> ELSE h[a].children[1]

\* Every pair <<ids, a>>: the node at address a is reached from `items` by
\* following the segment ids `ids`.
RECURSIVE Positions(_, _, _)
Positions(h, items, prefix) ==
    UNION {LET ids == Append(prefix, h[items[k]].id)
           IN  {<<ids, items[k]>>} \cup Positions(h, ChildrenOf(h, items[k]), ids)
           : k \in 1..Len(items)}

Nodes(h, items) == {p[2] : p \in Positions(h, items, <<>>)}

Descendants(h, a) == Nodes(h, ChildrenOf(h, a))

At(h, items, ids) == {p[2] : p \in {q \in Positions(h, items, <<>>) : q[1] = ids}}

IdsOf(h, items, a) == {p[1] : p \in {q \in Positions(h, items, <<>>) : q[2] = a}}

HasChildren(h, a) == Len(ChildrenOf(h, a)) > 0

IsLeaf(h, a) == h[a].path # None /\ ~HasChildren(h, a)

IsFolder(h, a) == HasChildren(h, a) /\ h[a].path = None

Loaded == ~sidebarLoading

Searching == Loaded /\ Trim(searchTerm) # <<>>

\* No path of the listing is a proper prefix, segment by segment, of another.
PrefixFree(paths) ==
    \A i, j \in 1..Len(paths) :
        i # j => ~IsPrefix(Split(paths[i], "/"), Split(paths[j], "/"))

\* The path appears as exactly one leaf, at the position its segment ids name.
OneLeafFor(fullPath) ==
    LET leaves == {a \in Nodes(heap, catalog) :
                       heap[a].path = Some(fullPath) /\ IsLeaf(heap, a)}
    IN  /\ Cardinality(leaves) = 1
        /\ leaves = At(heap, catalog, Split(fullPath, "/"))

----------------------------------------------------------------------------
(* Claims on the tree builder *)

\* C1 (as stated): for every list of distinct paths, every path appears in
\* the built tree as exactly one leaf, reached by its segment ids.
C1_EveryPathOneLeaf ==
    Loaded => \A i \in 1..Len(componentPaths) : OneLeafFor(componentPaths[i])

\* C1 (amended): the same, for listings in which no path is a proper prefix,
\* segment by segment, of another path.
C1_PrefixFreeEveryPathOneLeaf ==
    (Loaded /\ PrefixFree(componentPaths))
        => \A i \in 1..Len(componentPaths) : OneLeafFor(componentPaths[i])

C1_Witness ==
    /\ Loaded
    /\ Len(componentPaths) = 2
    /\ PrefixFree(componentPaths)
    /\ Len(catalog) = 1
    /\ \E i \in 1..2 : Len(Split(componentPaths[i], "/")) = 3
    /\ \A i \in 1..2 : OneLeafFor(componentPaths[i])

\* C2: every node of the built tree is exactly one of leaf (path, no
\* children) and folder (children, no path).
C2_LeafXorFolder ==
    Loaded => \A a \in Nodes(heap, catalog) : IsLeaf(heap, a) # IsFolder(heap, a)

----------------------------------------------------------------------------
(* Claims on the filter *)

\* C3: a term that is empty or only whitespace yields the catalog itself:
\* the same root list, and no object allocated for the result.
C3_BlankTermIsIdentity ==
    (Loaded /\ Trim(searchTerm) = <<>>)
        => /\ filteredCatalog = catalog
           /\ Len(heap) = catalogSize

C3_Witness ==
    /\ Loaded
    /\ searchTerm = <<" ">>
    /\ \E a \in Nodes(heap, catalog) : HasChildren(heap, a)
    /\ filteredCatalog = catalog

\* C4: under a non-blank term, every leaf of the result is a matched leaf and
\* every folder of the result has a matched leaf among its descendants.
C4_ResultOnlyMatches ==
    Searching =>
        \A a \in Nodes(heap, filteredCatalog) :
            IF heap[a].children = None
            THEN a \in matchedItems /\ IsLeaf(heap, a)
            ELSE \E d \in Descendants(heap, a) : d \in matchedItems /\ IsLeaf(heap, d)

C4_Witness ==
    /\ Searching
    /\ \E a \in Nodes(heap, filteredCatalog) :
           /\ HasChildren(heap, a)
           /\ \E b \in Range(ChildrenOf(heap, a)) : HasChildren(heap, b)
    /\ \E a \in Nodes(heap, catalog) : IsLeaf(heap, a) /\ a \notin matchedItems

\* C5: under a non-blank term, a folder of the catalog is retained (a node
\* stands in the result at the folder's position) iff one of its descendants
\* is a matched leaf, and every matched leaf stands in the result at its own
\* position, that is under all of its ancestors.
C5_RetainedIffMatchBelow ==
    Searching =>
        /\ \A f \in Nodes(heap, catalog) :
               HasChildren(heap, f) =>
                   ((\E ids \in IdsOf(heap, catalog, f) : At(heap, filteredCatalog, ids) # {})
                    <=> (\E d \in Descendants(heap, f) : d \in matchedItems))
        /\ \A m \in matchedItems :
               /\ m \in Nodes(heap, catalog)
               /\ \A ids \in IdsOf(heap, catalog, m) : m \in At(heap, filteredCatalog, ids)

C5_Witness ==
    /\ Searching
    /\ \E f, g \in Nodes(heap, catalog) :
           /\ HasChildren(heap, f) /\ HasChildren(heap, g)
           /\ \E d \in Descendants(heap, f) : d \in matchedItems
           /\ \A d \in Descendants(heap, g) : d \notin matchedItems
           /\ \A ids \in IdsOf(heap, catalog, g) : At(heap, filteredCatalog, ids) = {}

\* C6: no step taken once the catalog is loaded changes the catalog's root
\* list or any object of the catalog.
C6_FilterKeepsCatalog ==
    [][Loaded => /\ catalog' = catalog
                 /\ catalogSize' = catalogSize
                 /\ SubSeq(heap', 1, catalogSize) = SubSeq(heap, 1, catalogSize)]_vars

C6_Witness ==
    /\ Searching
    /\ Len(heap) > catalogSize
    /\ \E a \in Nodes(heap, filteredCatalog) :
           a > catalogSize /\ Len(ChildrenOf(heap, a)) = 1

----------------------------------------------------------------------------
(* Reading a diagram: the placeholders it holds, as the syntax defines them *)

NameChar(c) == c \notin {" ", "{", "}"}

RECURSIVE NameRun(_, _)
NameRun(doc, j) ==
    IF j <= Len(doc) /\ NameChar(doc[j]) THEN 1 + NameRun(doc, j + 1) ELSE 0

\* The placeholder  {{ name }}  that starts at position i: its length and its
\* name, length 0 when none starts there.
PlaceholderAt(doc, i) ==
    IF ~(i + 1 <= Len(doc) /\ doc[i] = "{" /\ doc[i + 1] = "{")
    THEN [len |-> 0, name |-> <<>>]
    ELSE LET j == i + 2 + SpaceRun(doc, i + 2)
             m == NameRun(doc, j)
             e == ClosesAt(doc, j + m)
         IN  IF m > 0 /\ e # 0
             THEN [len |-> e - i + 1, name |-> SubSeq(doc, j, j + m - 1)]
             ELSE [len |-> 0, name |-> <<>>]

PlaceholderNames(doc) ==
    {PlaceholderAt(doc, i).name : i \in {k \in 1..Len(doc) : PlaceholderAt(doc, k).len > 0}}

DataKeys == Range(KeysOf(rendererData))

RawNames == {k \o RawSuffix : k \in DataKeys}

ValueOf(key) ==
    LET e == rendererData[1]
    IN  e[CHOOSE i \in 1..Len(e) : e[i].key = key].value

\* The text a placeholder name stands for: the plain string of the key's
\* value for  <key>_raw , the value with its unit for  <key> .
RawText(name) == ToStr(ValueOf(CHOOSE k \in DataKeys : k \o RawSuffix = name))

DisplayText(name) ==
    LET unit == IF units # None /\ name \in DOMAIN units[1] THEN units[1][name] ELSE <<>>
    IN  IF unit # <<>> THEN ToStr(ValueOf(name)) \o <<" ">> \o unit
        ELSE ToStr(ValueOf(name))

\* The diagram with every raw placeholder of a data key replaced by RawText,
\* every other placeholder of a data key replaced by DisplayText, and the rest
\* of the text, the other placeholders included, as it stands.
RECURSIVE Expected(_, _)
Expected(doc, i) ==
    IF i > Len(doc) THEN <<>>
    ELSE LET ph == PlaceholderAt(doc, i)
         IN  IF ph.len > 0 /\ ph.name \in RawNames
             THEN RawText(ph.name) \o Expected(doc, i + ph.len)
             ELSE IF ph.len > 0 /\ ph.name \in DataKeys
             THEN DisplayText(ph.name) \o Expected(doc, i + ph.len)
             ELSE <<doc[i]>> \o Expected(doc, i + 1)

\* The placeholder pass of the last effect has completed: finalSvg is the
\* rendering of the current props.
Rendered == finalSvg # None /\ \A k \in DataKeys : ~RegExpThrows(k)

----------------------------------------------------------------------------
(* Claims on the placeholder pass *)

\* C7: in a diagram whose placeholders are raw placeholders  {{ k_raw }}  of
\* keys of the row, every one of them is replaced by exactly the plain string
\* of values[k], whatever the values and the other keys are.
C7_RawIsPlainString ==
    (/\ Rendered
     /\ rendererData # None
     /\ PlaceholderNames(svgContent) # {}
     /\ PlaceholderNames(svgContent) \subseteq RawNames)
        => finalSvg[1] = Expected(svgContent, 1)

\* C8: in a diagram whose placeholders are display placeholders  {{ k }}  of
\* keys of the row (and not the raw placeholder of another key), every one of
\* them is replaced by the plain string of values[k], followed by one space
\* and units[k] when units[k] is defined and not empty.
C8_DisplayIsValueAndUnit ==
    (/\ Rendered
     /\ rendererData # None
     /\ PlaceholderNames(svgContent) # {}
     /\ PlaceholderNames(svgContent) \subseteq DataKeys
     /\ PlaceholderNames(svgContent) \cap RawNames = {})
        => finalSvg[1] = Expected(svgContent, 1)

\* C10: a diagram rendered with no row, or whose placeholders all name keys
\* that the row does not have, comes out unchanged.
C10_AbsentKeysUntouched ==
    (/\ Rendered
     /\ \/ rendererData = None
        \/ PlaceholderNames(svgContent) \cap (DataKeys \cup RawNames) = {})
        => finalSvg[1] = svgContent

----------------------------------------------------------------------------
(* Claims on the viewer's diagram *)

\* '<text>0.7 mm</text><rect width="0.7"/>'
PitchRendered ==
    <<"<", "t", "e", "x", "t", ">", "0", ".", "7", " ", "m", "m",
      "<", "/", "t", "e", "x", "t", ">",
      "<", "r", "e", "c", "t", " ", "w", "i", "d", "t", "h", "=", "\"",
      "0", ".", "7", "\"", "/", ">">>

\* C9: when the viewer shows the pitch component (column pitch with unit mm)
\* with its row {pitch: 0.7} selected and the diagram pane open, the diagram
\* is rendered as
\* '<text>0.7 mm</text><rect width="0.7"/>'.
C9_UnitReachesDiagram ==
    (/\ viewerData = Some(PitchComponent)
     /\ selectedRowData = Some(PitchComponent.config.data[1][1])
     /\ isDiagramVisible)
        => finalSvg = Some(PitchRendered)

----------------------------------------------------------------------------
(* C11: the substitution raises no error *)

EffectRan == finalSvg # None \/ effectThrew

\* C11: whatever the diagram, the row (keys and values of any characters)
\* and the units, the effect completes: neither the placeholder pass nor the
\* val_<key> pass raises an error, and a diagram is assigned.
C11_EffectNeverThrows == EffectRan => (~effectThrew /\ finalSvg # None)

----------------------------------------------------------------------------
(* C12, C13: what fetchComponentData lets through *)

\* C12: a component that was loaded has at least one row and a column list
\* (a config without them is rejected with a format error).
C12_LoadedHasRowsAndColumns ==
    viewerData # None
        => /\ viewerData[1].config.columns # None
           /\ viewerData[1].config.data # None
           /\ viewerData[1].config.data[1] # <<>>

ResourceMissing(p) == ~Repository(p).config.ok \/ ~Repository(p).svg.ok

\* C13: a load of a directory that lacks config.yaml or diagram.svg ends in
\* the rejection, whichever response arrived first: the error is set and no
\* component is stored.
C13_MissingResourceRejects ==
    [][\A r \in pending :
          (r \notin pending' /\ r.received # {} /\ ResourceMissing(r.path))
              => (error' # None /\ viewerData' = viewerData)]_vars

\* The load of a directory without diagram.svg has been rejected.
C13_Witness ==
    /\ requests = 1
    /\ pending = {}
    /\ path = Some("screws/nosvg")
    /\ error = Some("Failed to fetch component data")
    /\ viewerData = None

----------------------------------------------------------------------------
(* C14: failures of the loads reach the user *)

CatalogFailed == catalogRequest = "rejected"

\* C14: a failed load is eventually shown as failed.  For the catalog
\* listing: once fetchCatalog has rejected, the Sidebar eventually leaves its
\* "Loading catalog..." state.
C14_CatalogFailureSurfaces == CatalogFailed ~> ~sidebarLoading

----------------------------------------------------------------------------
(* C15, C16: the tree of a listing, position by position *)

\* componentPaths[i] is a proper prefix, segment by segment, of componentPaths[j]
ProperPrefix(i, j) ==
    /\ i # j
    /\ IsPrefix(Split(componentPaths[i], "/"), Split(componentPaths[j], "/"))

\* No third path of the listing goes through, or stops short of, the position
\* of componentPaths[i].
OnlyTwoThrough(i, j) ==
    \A k \in 1..Len(componentPaths) \ {i, j} : ~ProperPrefix(i, k) /\ ~ProperPrefix(k, i)

\* C15: when one path of the listing is a proper prefix of another, the node
\* at the position of the shorter path is what the later of the two made it:
\* a leaf of the shorter path without children when the shorter path came
\* last, a node with children under which the longer path is a leaf when the
\* longer path came last.
C15_LastProcessedWins ==
    Loaded =>
        \A i, j \in 1..Len(componentPaths) :
            (ProperPrefix(i, j) /\ OnlyTwoThrough(i, j)) =>
                LET shared == At(heap, catalog, Split(componentPaths[i], "/"))
                IN  /\ Cardinality(shared) = 1
                    /\ \A a \in shared :
                           IF i > j
                           THEN /\ heap[a].path = Some(componentPaths[i])
                                /\ heap[a].children = None
                           ELSE /\ HasChildren(heap, a)
                                /\ OneLeafFor(componentPaths[j])
                                /\ \E d \in Descendants(heap, a) :
                                       heap[d].path = Some(componentPaths[j])

\* The shorter path came last and took the node over from the longer one.
C15_Witness ==
    /\ Loaded
    /\ Len(componentPaths) = 2
    /\ ProperPrefix(2, 1)
    /\ \A a \in At(heap, catalog, Split(componentPaths[2], "/")) :
           heap[a].path = Some(componentPaths[2]) /\ heap[a].children = None

\* The distinct segment ids that follow the position `ids` in the paths
\* k, k+1, ... of the listing, in the order of their first mention.
RECURSIVE Following(_, _, _, _)
Following(paths, ids, k, acc) ==
    IF k > Len(paths) THEN acc
    ELSE LET segs == Split(paths[k], "/")
         IN  IF /\ Len(segs) > Len(ids)
                /\ IsPrefix(ids, segs)
                /\ segs[Len(ids) + 1] \notin Range(acc)
             THEN Following(paths, ids, k + 1, Append(acc, segs[Len(ids) + 1]))
             ELSE Following(paths, ids, k + 1, acc)

IdSeq(h, items) == [k \in 1..Len(items) |-> h[items[k]].id]

\* The last path of the listing that ends at the position `ids` or above it
\* (0 when there is none): processing it deleted what was below.
LastReset(paths, ids) ==
    LET ends == {k \in 1..Len(paths) : IsPrefix(Split(paths[k], "/"), ids)}
    IN  IF ends = {} THEN 0 ELSE CHOOSE k \in ends : \A m \in ends : m <= k

\* C16 (as stated): the root list and the children of every node are the
\* distinct ids that follow that position in the paths of the listing, each
\* once, in first-mention order.
C16_ChildrenAreFollowingIds ==
    Loaded =>
        /\ IdSeq(heap, catalog) = Following(componentPaths, <<>>, 1, <<>>)
        /\ \A p \in Positions(heap, catalog, <<>>) :
               IdSeq(heap, ChildrenOf(heap, p[2])) = Following(componentPaths, p[1], 1, <<>>)

\* C16 (amended): the same, counting for each position only the paths
\* processed after the last path that ends at that position or above it;
\* in particular no two siblings have the same id.
C16_ChildrenAreFollowingIdsSinceReset ==
    Loaded =>
        /\ IdSeq(heap, catalog) = Following(componentPaths, <<>>, 1, <<>>)
        /\ \A p \in Positions(heap, catalog, <<>>) :
               /\ IdSeq(heap, ChildrenOf(heap, p[2])) =
                      Following(componentPaths, p[1],
                                LastReset(componentPaths, p[1]) + 1, <<>>)
               /\ NoDuplicates(IdSeq(heap, ChildrenOf(heap, p[2])))

\* Two siblings with one display name and two ids
C16_Witness ==
    /\ Loaded
    /\ \E a \in Nodes(heap, catalog) :
           /\ Len(ChildrenOf(heap, a)) = 2
           /\ heap[ChildrenOf(heap, a)[1]].name = heap[ChildrenOf(heap, a)[2]].name
           /\ heap[ChildrenOf(heap, a)[1]].id # heap[ChildrenOf(heap, a)[2]].id

----------------------------------------------------------------------------
(* C17, C18: the filter result against the catalog *)

\* s is t with some of its elements left out
RECURSIVE IsSubsequence(_, _)
IsSubsequence(s, t) ==
    IF s = <<>> THEN TRUE
    ELSE IF t = <<>> THEN FALSE
    ELSE IF Head(s) = Head(t) THEN IsSubsequence(Tail(s), Tail(t))
    ELSE IsSubsequence(s, Tail(t))

\* C17: during a search the root list of the result and the children of every
\* node of the result are, in ids, a subsequence of the list at the same
\* position of the catalog: the catalog's order is kept, whatever matched.
C17_ResultKeepsOrder ==
    Searching =>
        /\ IsSubsequence(IdSeq(heap, filteredCatalog), IdSeq(heap, catalog))
        /\ \A p \in Positions(heap, filteredCatalog, <<>>) :
               \E o \in At(heap, catalog, p[1]) :
                   IsSubsequence(IdSeq(heap, ChildrenOf(heap, p[2])),
                                 IdSeq(heap, ChildrenOf(heap, o)))

\* Two nodes of one list were kept.
C17_Witness ==
    /\ Searching
    /\ \/ Len(filteredCatalog) = 2
       \/ \E a \in Nodes(heap, filteredCatalog) : Len(ChildrenOf(heap, a)) = 2

\* C18: during a search every node of the result without a children list is
\* the catalog's own object at that position, and every node of the result
\* with a children list is an object the catalog does not hold, with the id,
\* name and path of the catalog's node at that position and with children
\* that all stand at positions below that node.
C18_LeavesSharedFoldersCopied ==
    Searching =>
        \A p \in Positions(heap, filteredCatalog, <<>>) :
            IF heap[p[2]].children = None
            THEN p[2] \in At(heap, catalog, p[1])
            ELSE /\ p[2] \notin Nodes(heap, catalog)
                 /\ p[2] > catalogSize
                 /\ \E o \in At(heap, catalog, p[1]) :
                        /\ heap[p[2]].id = heap[o].id
                        /\ heap[p[2]].name = heap[o].name
                        /\ heap[p[2]].path = heap[o].path
                        /\ heap[o].children # None
                        /\ \A k \in 1..Len(ChildrenOf(heap, p[2])) :
                               heap[ChildrenOf(heap, p[2])[k]].id
                                   \in Range(IdSeq(heap, ChildrenOf(heap, o)))

\* A copied folder holds a shared leaf and leaves another child out.
C18_Witness ==
    /\ Searching
    /\ \E p \in Positions(heap, filteredCatalog, <<>>) :
           /\ p[2] > catalogSize
           /\ \E c \in Range(ChildrenOf(heap, p[2])) : c \in matchedItems
           /\ \E o \in At(heap, catalog, p[1]) :
                  Len(ChildrenOf(heap, o)) > Len(ChildrenOf(heap, p[2]))

----------------------------------------------------------------------------
(* C19, C20: rendering twice, rendering in another order *)

Entries == IF rendererData = None THEN <<>> ELSE rendererData[1]

\* The text holds a placeholder of the key, in its default or its raw form.
HoldsTokenOf(text, key) ==
    \E i \in 1..Len(text) :
        /\ PlaceholderAt(text, i).len > 0
        /\ PlaceholderAt(text, i).name \in {key, key \o RawSuffix}

NoValueHoldsToken ==
    \A i, j \in 1..Len(Entries) :
        i # j => ~HoldsTokenOf(ToStr(Entries[i].value), Entries[j].key)

\* C19: when no value holds a placeholder of another key, rendering the
\* rendered diagram again with the same row and units changes nothing.
C19_RenderIdempotent ==
    (Rendered /\ NoValueHoldsToken)
        => Render(finalSvg[1], rendererData, units) = finalSvg[1]

\* Every order in which Object.entries could list the row
Orders(e) == {s \in SeqsUpTo(Range(e), Len(e)) : Len(s) = Len(e) /\ Range(s) = Range(e)}

NoRawClash == \A k1, k2 \in DataKeys : k1 # k2 \o RawSuffix

NoPlaceholderText ==
    /\ \A i \in 1..Len(Entries) : PlaceholderNames(ToStr(Entries[i].value)) = {}
    /\ units # None => \A k \in DOMAIN units[1] : PlaceholderNames(units[1][k]) = {}

\* C20: when no key is another key followed by _raw and neither a value nor a
\* unit holds a placeholder, the rendered diagram is the same for every order
\* of the row's keys.
C20_OrderIndependent ==
    (Rendered /\ rendererData # None /\ NoRawClash /\ NoPlaceholderText)
        => \A e \in Orders(Entries) : Render(svgContent, Some(e), units) = finalSvg[1]

----------------------------------------------------------------------------
(* C21: the val_<key> pass *)

\* The first element of the rendered text that has the id
IsFirstWithId(els, k) == \A m \in 1..(k - 1) : els[m].id # els[k].id

\* C21: once the diagram is rendered, every element  val_<k>  of the rendered
\* text, k a key of the row, holds the plain string of the row's value for k,
\* and every element whose id is  val_<k>  for no key k holds the text it
\* was rendered with.
C21_LegacyPassOverwrites ==
    Rendered =>
        LET rendered == ElementsOf(finalSvg[1])
        IN  /\ Len(elements) = Len(rendered)
            /\ \A k \in 1..Len(rendered) :
                   /\ elements[k].id = rendered[k].id
                   /\ IF \E key \in DataKeys : rendered[k].id = ValPrefix \o key
                      THEN IsFirstWithId(rendered, k) =>
                               \E key \in DataKeys :
                                   /\ rendered[k].id = ValPrefix \o key
                                   /\ elements[k].text = ToStr(ValueOf(key))
                      ELSE elements[k].text = rendered[k].text

----------------------------------------------------------------------------
(* C22: display names *)

IsSeparator(c) == c \in {"-", "_"}

\* The label, character by character: a space for every separator, the upper
\* case of every character that starts a token, every other character as it is.
LabelFits(id, name) ==
    /\ Len(name) = Len(id)
    /\ \A i \in 1..Len(id) :
           name[i] = IF IsSeparator(id[i]) THEN " "
                     ELSE IF i = 1 \/ IsSeparator(id[i - 1]) THEN ToUpperCase(id[i])
                     ELSE id[i]

----------------------------------------------------------------------------
(* formatLabel on its own: inputs, initial state and action *)

SlugChars == {"a", "b", "-", "_"}

Slugs == SeqsUpTo(SlugChars, MaxSlug)

InitLabel ==
    /\ slugArg \in Slugs
    /\ label = None
    /\ AppIdle
    /\ SidebarIdle
    /\ RendererIdle
    /\ ViewerIdle

\* formatLabel(slug) returns
FormatLabelReturns ==
    /\ label = None
    /\ label' = Some(formatLabel(slugArg))
    /\ UNCHANGED <<slugArg, appVars, sidebarVars, rendererVars, viewerVars>>

NextLabel == FormatLabelReturns

SpecLabel == InitLabel /\ [][NextLabel]_vars

----------------------------------------------------------------------------
(* C23: names of ids with empty words *)

SeparatorsOnly(id) == \A i \in 1..Len(id) : IsSeparator(id[i])

\* C23 (as stated): the name of an id that is empty, or made of separators
\* only, is the id itself.
C23_SeparatorsOnlyIsItself ==
    (label # None /\ SeparatorsOnly(slugArg)) => label[1] = slugArg

\* C23 (amended): the name has a word for every word of the id, and the word
\* for an empty word is empty: the name of the empty id is empty, the name of
\* an id made of n separators is n spaces.
C23_EmptyWordsStayEmpty ==
    label # None =>
        LET words == SplitWords(slugArg)
            named == Split(label[1], " ")
        IN  /\ Len(named) = Len(words)
            /\ \A i \in 1..Len(words) : words[i] = <<>> <=> named[i] = <<>>
            /\ SeparatorsOnly(slugArg) => label[1] = [i \in 1..Len(slugArg) |-> " "]

\* The name of an id of two separators has been derived.
C23_Witness ==
    /\ label = Some(<<" ", " ">>)
    /\ Len(slugArg) = 2
    /\ SeparatorsOnly(slugArg)


----------------------------------------------------------------------------
(* C24: the catalog of three components and the search for hex *)

Screws == <<"s", "c", "r", "e", "w", "s">>

Nuts == <<"n", "u", "t", "s">>

\* The leaves of the catalog with the given component path
LeafWithPath(p) == {a \in Nodes(heap, catalog) : IsLeaf(heap, a) /\ heap[a].path = Some(p)}

\* What fuse.search returns for the term hex on this catalog: the two
\* components whose name starts with the term.
HexLeaves == LeafWithPath(HexHeadPath) \cup LeafWithPath(HexNutPath)

PathsIn(items) == {heap[a].path[1] : a \in {b \in Nodes(heap, items) : heap[b].path # None}}

----------------------------------------------------------------------------
(* C25 to C27: the viewer's loads and its row selection *)

\* What the load of the path now requested settles to
LatestLoad == Settled([path |-> path[1]])

RowsOf(d) == IF d.config.data = None THEN <<>> ELSE d.config.data[1]

\* C25: once no load is pending after a change of path, the data shown and
\* the selected row are those of the path requested last (where its load
\* succeeds).
C25_LatestPathShown ==
    (path # None /\ requests > 1 /\ pending = {} /\ LatestLoad.ok) =>
        /\ viewerData = Some(LatestLoad.result)
        /\ selectedRowData # None =>
               selectedRowData[1] \in Range(RowsOf(LatestLoad.result))

\* C26: whenever a row is selected, the selected row data is the row at the
\* selected index of the data list of the component on display.
C26_SelectionIsRowOfShown ==
    /\ (selectedRowIndex = None) <=> (selectedRowData = None)
    /\ selectedRowIndex # None =>
           /\ viewerData # None
           /\ selectedRowIndex[1] < Len(RowsOf(viewerData[1]))
           /\ selectedRowData = Some(RowsOf(viewerData[1])[selectedRowIndex[1] + 1])

\* The state after a load has resolved: no row of its data is selected by a
\* stale index, row 0 is selected when there is one.
RowZeroSelected ==
    /\ selectedRowIndex' = Some(0)
    /\ selectedRowData' = Some(RowsOf(viewerData'[1])[1])

\* C27: a change of path clears the selection in the step that starts the
\* load; a load that resolves selects row 0 of its data when there is a row
\* and leaves the selection alone when there is none.
C27_ClearThenAutoSelect ==
    [][/\ SelectPath =>
              /\ selectedRowIndex' = None
              /\ selectedRowData' = None
              /\ \E r \in pending' \ pending : r.path = path'[1] /\ r.received = {}
       /\ FetchResolved =>
              IF Len(RowsOf(viewerData'[1])) > 0
              THEN RowZeroSelected
              ELSE UNCHANGED <<selectedRowIndex, selectedRowData>>]_vars

\* A load of a component with rows has resolved and selected row 0, and a
\* second path has been requested since the start.
C27_Witness ==
    /\ requests > 1
    /\ pending = {}
    /\ viewerData # None
    /\ selectedRowIndex = Some(0)
    /\ selectedRowData = Some(RowsOf(viewerData[1])[1])

----------------------------------------------------------------------------
(* C28: the two panes of the viewer *)

\* C28: after any clicks on the two visibility buttons, starting with both
\* panes visible, the diagram pane or the table pane is visible.
C28_APaneIsVisible == isDiagramVisible \/ isTableVisible

\* The diagram has been hidden by a click
C28_Witness == viewerData # None /\ ~isDiagramVisible /\ isTableVisible

----------------------------------------------------------------------------
(* C29 and C30: the comparison set and the widths of its columns *)

\* C29: on every entry into compare mode the comparison set becomes exactly
\* the component selected in single view, or empty when there is none; while
\* compare mode is on, a change of the set adds or removes exactly one path
\* and leaves the single-view selection as it is.
C29_CompareSetOnEntry ==
    [][/\ (~isCompareMode /\ isCompareMode') =>
              Range(selectedPaths') = (IF selectedPath = None THEN {} ELSE {selectedPath[1]})
       /\ (isCompareMode /\ isCompareMode' /\ selectedPaths' # selectedPaths) =>
              /\ \E p \in LeafPaths :
                     \/ /\ p \notin Range(selectedPaths)
                        /\ selectedPaths' = Append(selectedPaths, p)
                     \/ /\ p \in Range(selectedPaths)
                        /\ selectedPaths' = SetDelete(selectedPaths, p)
              /\ selectedPath' = selectedPath]_vars

RECURSIVE SumOf(_)
SumOf(widths) == IF widths = <<>> THEN Whole(0) ELSE Plus(Head(widths), SumOf(Tail(widths)))

\* The widths fit a comparison of n components
WidthsFit(n) ==
    /\ Len(columnWidths) = n
    /\ SumOf(columnWidths) = Whole(100)
    /\ \A i \in 1..n : ~Less(columnWidths[i], Whole(5))

\* A step of a drag moves width between the two columns at its handle only
DragKeepsPair ==
    (resizeState # None /\ columnWidths' # columnWidths) =>
        LET i == resizeState[1].index + 1
        IN  /\ Len(columnWidths') = Len(columnWidths)
            /\ \A k \in 1..Len(columnWidths) :
                   k \notin {i, i + 1} => columnWidths'[k] = columnWidths[k]
            /\ Plus(columnWidths'[i], columnWidths'[i + 1])
                   = Plus(columnWidths[i], columnWidths[i + 1])

\* C30: in compare mode with n components selected, 1 <= n <= 20, the widths
\* have one entry for each of them, sum to 100 and are 5 at least, also during
\* and after drags of the column handles; a drag changes only the two columns
\* at its handle and keeps the sum of their widths.
C30_WidthsPartitionHundred ==
    /\ [](LET n == Len(selectedPaths)
          IN  (isCompareMode /\ 1 <= n /\ n <= 20) => WidthsFit(n))
    /\ [][DragKeepsPair]_vars

\* A drag has pushed a column to its least width
C30_Witness ==
    /\ isCompareMode
    /\ resizeState # None
    /\ Len(columnWidths) >= 2
    /\ \E i \in 1..Len(columnWidths) :
           columnWidths[i] = Whole(5) /\ columnWidths[i] # Frac(100, Len(columnWidths))

============================================================================
